---- MODULE Spec2Model ----
(***************************************************************************)
(* A model of the linear ("bump") arena allocator of src/src/arena.c.      *)
(*                                                                         *)
(* The state is the Arena record (start, current, size), the contents of   *)
(* the heap buffer it owns, and the arguments and result of the most       *)
(* recent call.  The memory manager (malloc, realloc) is the environment:  *)
(* every request may succeed at any suitably aligned address or fail, and  *)
(* fresh bytes hold arbitrary values.                                      *)
(***************************************************************************)
EXTENDS Integers, Naturals, FiniteSets, Sequences, TLC

\* ---------------------------------------------------------------- bounds
\* Largest block the memory manager can hand out; larger requests fail.
MaxCap == 4
\* Largest initial_size passed to arena_new.
MaxInit == 2
\* Largest size passed to arena_allocate.
MaxReq == 3
\* Largest additional_size passed to arena_grow by a caller.
MaxAdd == 1
\* Largest cursor offset (current - start) the model follows.
MaxOff == 6
\* Width of size_t in bits (scaled down); size arithmetic is modulo 2^SizeBits.
SizeBits == 5
\* Most calls of arena_free the model follows on one arena.
MaxFrees == 2

\* ------------------------------------------------------- program constants
NULL == 0
ARENA_SUCCESS == 0
ARENA_ERROR_ALLOCATION_FAILED == 1
ARENA_ERROR_REALLOCATION_FAILED == 2

\* A byte is 0 or non-zero.
Byte == {0, 1}
\* Addresses malloc/realloc may return: multiples of the allocator's
\* fundamental alignment (4 here); 8 is also 8-aligned, 100 is not.
Bases == {8, 100}
\* The alignments a caller passes (powers of two).
Alignments == {1, 2, 4, 8}
\* Alignments the header calls invalid: zero and a non-power-of-two.
InvalidAlignments == {0, 3}
Sizes == 0..MaxReq
\* size_t arithmetic wraps modulo SizeModulus.
SizeModulus == 2 ^ SizeBits

VARIABLES
    handle,   \* "none": no arena yet; "live": arena_new returned it; "freed":
              \* arena_free was called on it; "trapped": the process was killed
    allocated, \* the heap blocks currently allocated: "rec" (the Arena
              \* record) and "buf" (the buffer)
    released, \* how many times free() was called on the arena's buffer and
              \* on its record
    start,    \* Arena.start: address of the buffer
    current,  \* Arena.current: address of the next free byte
    size,     \* Arena.size: capacity of the buffer in bytes
    mem,      \* contents of the buffer, indexed by offset 0..size-1
    beyond,   \* what a byte of the last returned region that lies outside
              \* the buffer reads as (the write to it was out of bounds)
    top,      \* highest end offset of the regions returned since the last reset
    last      \* the most recent call: its arguments, the adjustment it
              \* computed, the outcome of the malloc/realloc of the buffer it
              \* made ("none" if it made none) and its result (for
              \* arena_reset, size is used() at the time of the call)

vars == <<handle, allocated, released, start, current, size, mem, beyond, top,
          last>>

Max(a, b) == IF a >= b THEN a ELSE b

\* C's logical negation of an integer-valued expression.
Not(x) == IF x = 0 THEN 1 ELSE 0

\* malloc(n) / realloc(p, n): NULL, or the address of a block of n bytes.
MallocResults(n) == IF n <= MaxCap THEN Bases \cup {NULL} ELSE {NULL}
ReallocResults(n) == IF n <= MaxCap THEN Bases \cup {NULL} ELSE {NULL}

Call(op, sz, al, pad, grow, ret) ==
    [op |-> op, size |-> sz, alignment |-> al, padding |-> pad,
     grow |-> grow, ret |-> ret]

\* size_t arena_used(const Arena*)
arena_used == current - start

\* size_t arena_available(const Arena*)
arena_available == size - (current - start)

\* float arena_utilization(const Arena*): (float)used / size * 100.0f, as the
\* exact fraction num / den.
arena_utilization == [num |-> arena_used * 100, den |-> size]

\* n is a power of two.
IsPowerOfTwo(n) == \E k \in 0..(SizeBits - 1) : n = 2 ^ k

\* ----------------------------------------------------------------- Init
Init ==
    /\ handle = "none"
    /\ allocated = {}
    /\ released = [buf |-> 0, rec |-> 0]
    /\ start = NULL
    /\ current = NULL
    /\ size = 0
    /\ mem = <<>>
    /\ beyond = 0
    /\ top = 0
    /\ last = Call("none", 0, 0, 0, "none", NULL)

\* arena_new that returns NULL without free(arena) when the buffer's malloc
\* fails.
arena_new_leaking(initial_size, recOk, buf, contents) ==
    /\ handle = "none"
    /\ IF ~recOk \/ buf = NULL
       THEN /\ allocated' = IF recOk THEN {"rec"} ELSE {}
            /\ last' = Call("new", initial_size, 0, 0,
                            IF recOk THEN "failed" ELSE "none", NULL)
            /\ UNCHANGED <<handle, released, start, current, size, mem, beyond,
                           top>>
       ELSE /\ handle' = "live"
            /\ allocated' = {"rec", "buf"}
            /\ start' = buf
            /\ current' = buf
            /\ size' = initial_size
            /\ mem' = contents
            /\ last' = Call("new", initial_size, 0, 0, "ok", buf)
            /\ UNCHANGED <<released, beyond, top>>

\* Arena* arena_new(size_t initial_size)
\* recOk: whether malloc(sizeof(Arena)) succeeds; buf: what malloc(initial_size)
\* returns; contents: the (uninitialised) bytes of the new buffer.
arena_new(initial_size, recOk, buf, contents) ==
    /\ handle = "none"
    /\ IF ~recOk
       THEN \* if (!arena) { return NULL; }
            /\ allocated' = {}
            /\ last' = Call("new", initial_size, 0, 0, "none", NULL)
            /\ UNCHANGED <<handle, released, start, current, size, mem, beyond,
                           top>>
       ELSE IF buf = NULL
       THEN \* free(arena); return NULL;
            /\ allocated' = {"rec"} \ {"rec"}
            /\ last' = Call("new", initial_size, 0, 0, "failed", NULL)
            /\ UNCHANGED <<handle, released, start, current, size, mem, beyond,
                           top>>
       ELSE /\ handle' = "live"
            /\ allocated' = {"rec", "buf"}
            /\ start' = buf
            /\ current' = buf
            /\ size' = initial_size
            /\ mem' = contents
            /\ last' = Call("new", initial_size, 0, 0, "ok", buf)
            /\ UNCHANGED <<released, beyond, top>>

\* void arena_free(Arena* arena)
arena_free ==
    /\ handle = "live"
    /\ handle' = "freed"
    /\ allocated' = (allocated \ {"buf"}) \ {"rec"}
    /\ released' = [buf |-> released.buf + 1, rec |-> released.rec + 1]
    /\ last' = Call("free", 0, 0, 0, "none", NULL)
    /\ UNCHANGED <<start, current, size, mem, beyond, top>>

\* arena_grow with the size stored before realloc's result is tested.
GrowResultSizeFirst(additional_size, newStart, fill) ==
    LET newSize == (size + additional_size) % SizeModulus
        usedBytes == current - start
    IN  IF newStart = NULL
        THEN [err |-> ARENA_ERROR_REALLOCATION_FAILED,
              start |-> start, current |-> current, size |-> newSize, mem |-> mem]
        ELSE [err |-> ARENA_SUCCESS,
              start |-> newStart,
              current |-> newStart + usedBytes,
              size |-> newSize,
              mem |-> [i \in 0..(newSize - 1) |->
                          IF i < size THEN mem[i] ELSE fill[i]]]

\* arena_grow that leaves current pointing into the old buffer.
GrowResultStaleCursor(additional_size, newStart, fill) ==
    LET newSize == (size + additional_size) % SizeModulus
    IN  IF newStart = NULL
        THEN [err |-> ARENA_ERROR_REALLOCATION_FAILED,
              start |-> start, current |-> current, size |-> size, mem |-> mem]
        ELSE [err |-> ARENA_SUCCESS,
              start |-> newStart,
              current |-> current,
              size |-> newSize,
              mem |-> [i \in 0..(newSize - 1) |->
                          IF i < size THEN mem[i] ELSE fill[i]]]

\* ArenaError arena_grow(Arena*, size_t additional_size), as a function of the
\* arena: newStart is what realloc returned, fill the bytes realloc left
\* uninitialised past the old size.
GrowResult(additional_size, newStart, fill) ==
    LET newSize == (size + additional_size) % SizeModulus
        usedBytes == current - start
    IN  IF newStart = NULL
        THEN [err |-> ARENA_ERROR_REALLOCATION_FAILED,
              start |-> start, current |-> current, size |-> size, mem |-> mem]
        ELSE [err |-> ARENA_SUCCESS,
              start |-> newStart,
              current |-> newStart + usedBytes,
              size |-> newSize,
              mem |-> [i \in 0..(newSize - 1) |->
                          IF i < size THEN mem[i] ELSE fill[i]]]

\* The bytes realloc(start, size + additional_size) may leave past the old size.
Fills(additional_size, newStart) ==
    IF newStart = NULL THEN {<<>>}
    ELSE [size..(((size + additional_size) % SizeModulus) - 1) -> Byte]

arena_grow(additional_size, newStart, fill) ==
    /\ handle = "live"
    /\ LET g == GrowResult(additional_size, newStart, fill)
       IN  /\ start' = g.start
           /\ current' = g.current
           /\ size' = g.size
           /\ mem' = g.mem
           /\ last' = Call("grow", additional_size, 0, 0,
                           IF newStart = NULL THEN "failed" ELSE "ok", g.err)
    /\ UNCHANGED <<handle, allocated, released, beyond, top>>

\* arena_reset that also clears the buffer.
arena_reset_clearing ==
    /\ handle = "live"
    /\ current' = start
    /\ mem' = [i \in DOMAIN mem |-> 0]
    /\ top' = 0
    /\ last' = Call("reset", current - start, 0, 0, "none", NULL)
    /\ UNCHANGED <<handle, allocated, released, start, size, beyond>>

\* void arena_reset(Arena* arena)
arena_reset ==
    /\ handle = "live"
    /\ current' = start
    /\ top' = 0
    /\ last' = Call("reset", current - start, 0, 0, "none", NULL)
    /\ UNCHANGED <<handle, allocated, released, start, size, mem, beyond>>

\* An adjustment that takes the remainder itself as the padding.
AdjustmentRemainder(cur, alignment) == cur % alignment

\* The adjustment that rounds address cur up to a multiple of alignment:
\*   adjustment = alignment - (cur % alignment); if (== alignment) adjustment = 0
\* cur % 0 is undefined: the division either traps (DivisionTrap) or, as
\* here, leaves the remainder 0.
Adjustment(cur, alignment) ==
    LET rem == IF alignment = 0 THEN 0 ELSE cur % alignment
        adjustment == alignment - rem
    IN  IF adjustment = alignment THEN 0 ELSE adjustment

\* A growth test that also fires on an exact fit.
NeedGrowAtExactFit(sz, alignment) ==
    current + Adjustment(current, alignment) + sz >= start + size

\* if (arena->current + adjustment + size > arena->start + arena->size)
NeedGrow(sz, alignment) ==
    current + Adjustment(current, alignment) + sz > start + size

\* A cursor advance that forgets the padding.
BumpNoPadding(cur, adjustment, sz) == cur + sz

\* arena->current += adjustment + size
Bump(cur, adjustment, sz) == cur + adjustment + sz

\* memset(ptr, 0, n) on the buffer m, ptr at offset off: the bytes of the
\* region inside the buffer become zero.
Memset(m, off, n) ==
    [i \in DOMAIN m |-> IF off <= i /\ i < off + n THEN 0 ELSE m[i]]

\* void* arena_allocate(Arena*, size_t size, size_t alignment), as a function
\* of the arena; newStart and fill are realloc's result if the call grows.
AllocateResult(sz, alignment, newStart, fill) ==
    LET adjustment == Adjustment(current, alignment)
        grows == NeedGrow(sz, alignment)
        g == IF grows
             THEN GrowResult((size * 2 + adjustment) % SizeModulus, newStart, fill)
             ELSE [err |-> ARENA_SUCCESS,
                   start |-> start, current |-> current, size |-> size, mem |-> mem]
    IN  IF grows /\ Not(g.err) /= 0
        THEN \* if (!arena_grow(...)) return NULL;
             [ret |-> NULL, start |-> g.start, current |-> g.current,
              size |-> g.size, mem |-> g.mem]
        ELSE LET ptr == g.current + adjustment
             IN  [ret |-> ptr, start |-> g.start,
                  current |-> Bump(g.current, adjustment, sz),
                  size |-> g.size,
                  mem |-> Memset(g.mem, ptr - g.start, sz)]

arena_allocate(sz, alignment, newStart, fill, spill) ==
    /\ handle = "live"
    /\ LET a == AllocateResult(sz, alignment, newStart, fill)
           outside == a.ret /= NULL /\ a.ret - a.start + sz > a.size
       IN  /\ a.current - a.start <= MaxOff
           /\ start' = a.start
           /\ current' = a.current
           /\ size' = a.size
           /\ mem' = a.mem
           /\ beyond' = IF outside THEN spill ELSE 0
           /\ top' = IF a.ret = NULL THEN top
                     ELSE Max(top, a.ret - a.start + sz)
           /\ last' = Call("allocate", sz, alignment,
                           Adjustment(current, alignment),
                           IF ~NeedGrow(sz, alignment) THEN "none"
                           ELSE IF newStart = NULL THEN "failed" ELSE "ok",
                           a.ret)
    /\ UNCHANGED <<handle, allocated, released>>

\* The caller stores byte v at offset off of memory it was handed.
Write(off, v) ==
    /\ handle = "live"
    /\ off < size
    /\ off < current - start
    /\ mem' = [mem EXCEPT ![off] = v]
    /\ last' = Call("write", 0, 0, 0, "none", NULL)
    /\ UNCHANGED <<handle, allocated, released, start, current, size, beyond,
                   top>>

\* The outcomes of the realloc an arena_allocate(sz, alignment) call makes.
AllocReallocs(sz, alignment) ==
    IF NeedGrow(sz, alignment)
    THEN ReallocResults((size + size * 2 + Adjustment(current, alignment))
                          % SizeModulus)
    ELSE {NULL}

AllocFills(sz, alignment, newStart) ==
    IF NeedGrow(sz, alignment)
    THEN Fills(size * 2 + Adjustment(current, alignment), newStart)
    ELSE {<<>>}

\* What bytes written past the end of the buffer may read back as: the store
\* is out of bounds, so its effect is not defined.
Spills(sz, alignment, newStart) ==
    IF NeedGrow(sz, alignment) /\ newStart = NULL /\ sz > 0 THEN Byte ELSE {0}

Next ==
    \/ \E n \in 0..MaxInit, recOk \in BOOLEAN :
         \E buf \in MallocResults(n) :
           \E contents \in [0..(n - 1) -> Byte] :
             arena_new(n, recOk, buf, contents)
    \/ \E a \in 0..MaxAdd :
         \E r \in ReallocResults((size + a) % SizeModulus) :
           \E fill \in Fills(a, r) : arena_grow(a, r, fill)
    \/ \E sz \in Sizes, al \in Alignments :
         \E r \in AllocReallocs(sz, al) :
           \E fill \in AllocFills(sz, al, r), spill \in Spills(sz, al, r) :
             arena_allocate(sz, al, r, fill, spill)
    \/ \E off \in 0..(MaxCap - 1), v \in Byte : Write(off, v)
    \/ arena_reset
    \/ arena_free

Spec == Init /\ [][Next]_vars

\* ---------------------------------------------------- unrestricted callers
\* arena_allocate(arena, sz, 0) on a build where the division by zero in
\* (size_t)arena->current % alignment traps: the process is killed.
DivisionTrap(sz) ==
    /\ handle = "live"
    /\ handle' = "trapped"
    /\ last' = Call("allocate", sz, 0, 0, "none", NULL)
    /\ UNCHANGED <<allocated, released, start, current, size, mem, beyond, top>>

\* arena_free(arena) called again on an arena that was already freed: the
\* record is read after its release, and either the memory manager aborts
\* the process or both blocks are handed to free() a second time.
arena_free_again(trap) ==
    /\ handle = "freed"
    /\ released.buf < MaxFrees
    /\ IF trap
       THEN /\ handle' = "trapped"
            /\ UNCHANGED released
       ELSE /\ released' = [buf |-> released.buf + 1, rec |-> released.rec + 1]
            /\ UNCHANGED handle
    /\ last' = Call("free", 0, 0, 0, "none", NULL)
    /\ UNCHANGED <<allocated, start, current, size, mem, beyond, top>>

\* The largest values of size_t, as additional_size of arena_grow.
LargeAdds == (SizeModulus - MaxAdd - 1)..(SizeModulus - 1)

\* Callers that also pass invalid alignments and any additional_size, and
\* call arena_free on a freed arena.
NextAny ==
    \/ Next
    \/ \E sz \in Sizes, al \in InvalidAlignments :
         \E r \in AllocReallocs(sz, al) :
           \E fill \in AllocFills(sz, al, r), spill \in Spills(sz, al, r) :
             arena_allocate(sz, al, r, fill, spill)
    \/ \E sz \in Sizes : DivisionTrap(sz)
    \/ \E a \in LargeAdds :
         \E r \in ReallocResults((size + a) % SizeModulus) :
           \E fill \in Fills(a, r) : arena_grow(a, r, fill)
    \/ \E trap \in BOOLEAN : arena_free_again(trap)

SpecAny == Init /\ [][NextAny]_vars

\* ------------------------------------------------------------ properties

\* What the byte at offset off of the buffer reads as.
ReadByte(off) == IF off < size THEN mem[off] ELSE beyond

\* C1: in every reachable state of a live arena the cursor is inside the
\* buffer: start <= current <= start + size.
CursorInsideBuffer ==
    handle = "live" => (start <= current /\ current <= start + size)

\* C2: arena_allocate returns NULL only if growth was needed and the
\* reallocation failed.
AllocateFailsOnlyIfGrowthFails ==
    (last.op = "allocate" /\ last.ret = NULL) => last.grow = "failed"

\* C3: an arena_allocate whose growth reallocation fails returns NULL and
\* leaves start, current, size and the buffer contents as they were.
FailedGrowthAllocateIsNoOp ==
    [][(last'.op = "allocate" /\ last'.grow = "failed")
         => (last'.ret = NULL /\ UNCHANGED <<start, current, size, mem>>)]_vars

\* C4: an arena_grow whose reallocation fails returns
\* ARENA_ERROR_REALLOCATION_FAILED and leaves start, current, size and the
\* buffer contents unchanged.
GrowFailureLeavesArenaUnchanged ==
    [][(last'.op = "grow" /\ last'.grow = "failed")
         => (/\ last'.ret = ARENA_ERROR_REALLOCATION_FAILED
             /\ UNCHANGED <<start, current, size, mem>>)]_vars

\* C4 witness: a failed arena_grow on an arena that holds allocated bytes.
GrowFailedWitness ==
    /\ last.op = "grow" /\ last.grow = "failed"
    /\ last.ret = ARENA_ERROR_REALLOCATION_FAILED
    /\ last.size > 0
    /\ size > 0 /\ current > start /\ current <= start + size
    /\ \E i \in DOMAIN mem : mem[i] = 1

\* C5: when arena_allocate grows the arena and the reallocation succeeds, the
\* new capacity is at least used + padding + size.
SingleGrowthSuffices ==
    [][(last'.op = "allocate" /\ last'.grow = "ok")
         => size' >= (current - start)
                       + Adjustment(current, last'.alignment) + last'.size]_vars

RegionsDisjointAndOrdered ==
    [][(last'.op = "allocate" /\ last'.ret /= NULL)
         => last'.ret - start' >= top]_vars

\* C8 witness: a non-empty region returned at offset 1 of a buffer at address
\* 8; used() == 1 arises only from an earlier one-byte region at offset 0.
SecondRegionWitness ==
    /\ last.op = "allocate" /\ last.ret = 9 /\ start = 8
    /\ last.grow = "none"
    /\ last.size > 0
    /\ top = 1 + last.size
    /\ current <= start + size

\* C9: after an arena_allocate that fit, or that grew the arena successfully,
\* used() is the previous used() plus padding plus size.
UsedAdvancesByPaddingPlusSize ==
    [][(last'.op = "allocate" /\ last'.grow \in {"none", "ok"})
         => current' - start'
              = (current - start)
                  + Adjustment(current, last'.alignment) + last'.size]_vars

GrowSuccessKeepsUsedBytes ==
    [][(last'.op = "grow" /\ last'.grow = "ok")
         => (/\ size' = size + last'.size
             /\ current' - start' = current - start
             /\ \A i \in 0..(current - start - 1) :
                  i < size => mem'[i] = mem[i])]_vars

\* C11 witness: a successful arena_grow by one byte of an arena whose first
\* byte is allocated and non-zero.
GrowSucceededWitness ==
    /\ last.op = "grow" /\ last.grow = "ok" /\ last.ret = ARENA_SUCCESS
    /\ last.size > 0
    /\ current > start /\ current <= start + size
    /\ mem[0] = 1

\* C12: arena_allocate with an alignment that is not a power of two returns
\* NULL and leaves the arena unchanged.
InvalidAlignmentFailsFast ==
    [][(last'.op = "allocate" /\ ~IsPowerOfTwo(last'.alignment))
         => (/\ handle' = handle
             /\ last'.ret = NULL
             /\ UNCHANGED <<start, current, size, mem>>)]_vars

\* C13: for a live arena with capacity > 0, arena_utilization is used /
\* capacity, a ratio between 0 and 1.
UtilizationIsRatio ==
    (handle = "live" /\ size > 0)
        => LET u == arena_utilization
           IN  /\ u.num * size = arena_used * u.den
               /\ 0 <= u.num /\ u.num <= u.den

\* C14: a destroyed arena accepts no operation, only arena_free destroys, and
\* the buffer and the record are each released at most once (exactly once
\* when destroyed).
DestroyedIsTerminal ==
    [][/\ handle /= "freed"
       /\ (handle' = "freed" => last'.op = "free")
       /\ released'.buf <= 1 /\ released'.rec <= 1
       /\ (handle' = "freed" => released'.buf = 1 /\ released'.rec = 1)]_vars

\* C15: arena_new returns NULL and leaves no heap block allocated if either
\* malloc fails; otherwise the arena it returns has used() == 0 and capacity
\* == initial_size.
ArenaNewAllOrNothing ==
    [][\A n \in 0..MaxInit, recOk \in BOOLEAN :
         \A buf \in MallocResults(n) :
           \A contents \in [0..(n - 1) -> Byte] :
             arena_new(n, recOk, buf, contents)
               => IF ~recOk \/ buf = NULL
                  THEN /\ last'.ret = NULL
                       /\ handle' = "none"
                       /\ allocated' = {}
                  ELSE /\ last'.ret /= NULL
                       /\ handle' = "live"
                       /\ allocated' = {"rec", "buf"}
                       /\ current' - start' = 0
                       /\ size' = n]_vars

\* C15 witness: an arena_new whose record was allocated and whose buffer was
\* not: it returned NULL and no block is allocated.
ArenaNewBufferFailedWitness ==
    /\ last.op = "new" /\ last.grow = "failed" /\ last.ret = NULL
    /\ handle = "none" /\ allocated = {}

\* C16: when arena_allocate grows the arena and the reallocation succeeds, the
\* new capacity is max(capacity * 2 + padding, used + padding + size).
GrowthPolicyIsMax ==
    [][(last'.op = "allocate" /\ last'.grow = "ok")
         => size' = Max(size * 2 + last'.padding,
                        (current - start) + last'.padding + last'.size)]_vars

\* C17: the region a successful arena_allocate returns lies inside the buffer:
\* start <= ptr and ptr + size <= start + capacity.
ReturnedRegionInsideBuffer ==
    (last.op = "allocate" /\ last.ret /= NULL)
        => (start <= last.ret /\ last.ret + last.size <= start + size)

\* C18: an arena_allocate whose request fits (used + padding + size <=
\* capacity) succeeds without growing: capacity and base are unchanged, and
\* after an exact fit available() == 0.
FittingRequestDoesNotGrow ==
    [][(/\ last'.op = "allocate"
        /\ (current - start) + Adjustment(current, last'.alignment)
             + last'.size <= size)
         => (/\ last'.ret /= NULL /\ last'.grow = "none"
             /\ size' = size /\ start' = start
             /\ ((current - start) + Adjustment(current, last'.alignment)
                   + last'.size = size
                 => size' - (current' - start') = 0))]_vars

\* C18 witness: a non-empty allocation that filled the buffer exactly.
ExactFitWitness ==
    /\ last.op = "allocate" /\ last.ret /= NULL /\ last.grow = "none"
    /\ last.size > 0
    /\ current = start + size
    /\ arena_available = 0

\* C19: the capacity of a live arena never decreases.
CapacityNeverDecreases ==
    [][(handle = "live" /\ handle' = "live") => size' >= size]_vars
====
